---- MODULE Spec2Model ----
(***************************************************************************)
(* crontab-guru: the five-field cron expression editor of src/main.go.     *)
(*                                                                         *)
(* A string is a sequence of one-character strings, so "JAN" is            *)
(* <<"J","A","N">>; the empty string is <<>>.  The model state is the Go   *)
(* struct `model`, the operators are its pure helpers, and there is one    *)
(* action per message that Update can receive.                             *)
(***************************************************************************)
EXTENDS Integers, Sequences, FiniteSets, TLC

(***************************************************************************)
(* Program constants (src/main.go:28-41).                                  *)
(***************************************************************************)
inputCharLimit == 10
numCronFields == 5
minAbbrevLength == 3
fieldIndexMonth == 3
fieldIndexWeekday == 4
stepValueMinLength == 2

(***************************************************************************)
(* Bounds of the exploration.                                              *)
(***************************************************************************)
\* the longest value handed to the Token Validator, counted in tokens
MaxTokens == 3
\* the editing core types into a field that holds fewer characters than this
MaxLen == 1
\* the whole editor types while the five fields hold fewer characters than this
MaxCharsAll == 2
\* pending clearCopyMessage ticks
MaxTimers == 2
\* the clock stops after this many periods
MaxClock == 2

(***************************************************************************)
(* Characters and the strings package.                                     *)
(***************************************************************************)
UpperSeq ==
    << "A","B","C","D","E","F","G","H","I","J","K","L","M",
       "N","O","P","Q","R","S","T","U","V","W","X","Y","Z" >>

LowerSeq ==
    << "a","b","c","d","e","f","g","h","i","j","k","l","m",
       "n","o","p","q","r","s","t","u","v","w","x","y","z" >>

UpperLetters == { UpperSeq[i] : i \in 1..26 }

LowerLetters == { LowerSeq[i] : i \in 1..26 }

Digits == { "0","1","2","3","4","5","6","7","8","9" }

\* unicode.ToUpper on one rune of the model's alphabet
ToUpperChar(c) ==
    IF c \in LowerLetters
    THEN UpperSeq[CHOOSE i \in 1..26 : LowerSeq[i] = c]
    ELSE c

\* strings.ToUpper
ToUpper(s) == [ i \in 1..Len(s) |-> ToUpperChar(s[i]) ]

\* strings.HasPrefix
HasPrefix(s, p) == Len(p) <= Len(s) /\ SubSeq(s, 1, Len(p)) = p

\* strings.Contains
Contains(s, p) ==
    \E i \in 0..(Len(s) - Len(p)) : SubSeq(s, i + 1, i + Len(p)) = p

(***************************************************************************)
(* Token Validator (src/main.go:181-317).                                  *)
(***************************************************************************)
validMonths ==
    << <<"J","A","N">>, <<"F","E","B">>, <<"M","A","R">>, <<"A","P","R">>,
       <<"M","A","Y">>, <<"J","U","N">>, <<"J","U","L">>, <<"A","U","G">>,
       <<"S","E","P">>, <<"O","C","T">>, <<"N","O","V">>, <<"D","E","C">> >>

validDays ==
    << <<"S","U","N">>, <<"M","O","N">>, <<"T","U","E">>, <<"W","E","D">>,
       <<"T","H","U">>, <<"F","R","I">>, <<"S","A","T">> >>

validateMonthAbbreviation(letterPart) ==
    \E k \in 1..Len(validMonths) :
        Contains(letterPart, validMonths[k]) \/ HasPrefix(letterPart, validMonths[k])

\* a variant that looks the weekday up in the month table as well
validateWeekdayAbbreviationAnyName(letterPart) ==
    \/ validateMonthAbbreviation(letterPart)
    \/ \E k \in 1..Len(validDays) : Contains(letterPart, validDays[k])

validateWeekdayAbbreviation(letterPart) ==
    \E k \in 1..Len(validDays) :
        Contains(letterPart, validDays[k]) \/ HasPrefix(letterPart, validDays[k])

\* a variant that gathers every letter of the value, not only the leading run
extractLetterPartAllLetters(value) ==
    LET upper == ToUpper(value)
    IN  SelectSeq(upper, LAMBDA c : c \in UpperLetters)

\* the leading run of A-Z of the upper-cased value
extractLetterPart(value) ==
    LET upper == ToUpper(value)
        stops == { i \in 1..Len(upper) : upper[i] \notin UpperLetters }
        n     == IF stops = {} THEN Len(upper)
                 ELSE (CHOOSE i \in stops : \A j \in stops : i <= j) - 1
    IN  SubSeq(upper, 1, n)

hasLetters(value) ==
    \E i \in 1..Len(value) : value[i] \in UpperLetters \/ value[i] \in LowerLetters

\* a variant that takes "*/" with nothing after the slash
validateStepValueBareSlash(value) ==
    IF ~HasPrefix(value, <<"*">>) \/ Len(value) <= 1 THEN TRUE
    ELSE IF value[2] # "/" THEN FALSE
    ELSE \A index \in (stepValueMinLength + 1)..Len(value) : value[index] \in Digits

\* a variant that wants a step of at least 1
validateStepValuePositive(value) ==
    IF ~HasPrefix(value, <<"*">>) \/ Len(value) <= 1 THEN TRUE
    ELSE IF value[2] # "/" THEN FALSE
    ELSE IF Len(value) = stepValueMinLength THEN FALSE
    ELSE /\ \A index \in (stepValueMinLength + 1)..Len(value) : value[index] \in Digits
         /\ \E index \in (stepValueMinLength + 1)..Len(value) : value[index] # "0"

validateStepValue(value) ==
    IF ~HasPrefix(value, <<"*">>) \/ Len(value) <= 1 THEN TRUE
    ELSE IF value[2] # "/" THEN FALSE
    ELSE IF Len(value) = stepValueMinLength THEN FALSE
    ELSE \A index \in (stepValueMinLength + 1)..Len(value) : value[index] \in Digits

\* a variant that allows the letters in either case
validCharsAnyCase(fieldIndex) ==
    Digits \cup {"*", ",", "-", "/"} \cup
    (IF fieldIndex = fieldIndexMonth \/ fieldIndex = fieldIndexWeekday
     THEN UpperLetters \cup LowerLetters ELSE {})

validChars(fieldIndex) ==
    Digits \cup {"*", ",", "-", "/"} \cup
    (IF fieldIndex = fieldIndexMonth \/ fieldIndex = fieldIndexWeekday
     THEN UpperLetters ELSE {})

isValidCharForField(value, fieldIndex) ==
    \A i \in 1..Len(value) : value[i] \in validChars(fieldIndex)

validateLetterValueWholeName(value, fieldIndex) ==
    IF fieldIndex # fieldIndexMonth /\ fieldIndex # fieldIndexWeekday THEN FALSE
    ELSE IF extractLetterPart(value) # value THEN FALSE
    ELSE IF fieldIndex = fieldIndexMonth
         THEN validateMonthAbbreviation(extractLetterPart(value))
         ELSE validateWeekdayAbbreviation(extractLetterPart(value))

validateLetterValue(value, fieldIndex) ==
    IF fieldIndex # fieldIndexMonth /\ fieldIndex # fieldIndexWeekday THEN FALSE
    ELSE LET letterPart == extractLetterPart(value)
         IN  IF Len(letterPart) < minAbbrevLength THEN FALSE
             ELSE IF fieldIndex = fieldIndexMonth
                  THEN validateMonthAbbreviation(letterPart)
                  ELSE validateWeekdayAbbreviation(letterPart)

\* a variant without the early return, in which a value needs a first character
isValidCronPartNoEarlyReturn(value, fieldIndex) ==
    IF value = <<>> THEN FALSE
    ELSE IF ~isValidCharForField(value, fieldIndex) THEN FALSE
    ELSE IF hasLetters(value) THEN validateLetterValue(value, fieldIndex)
    ELSE validateStepValue(value)

isValidCronPart(value, fieldIndex) ==
    IF value = <<>> \/ value = <<"*">> THEN TRUE
    ELSE IF ~isValidCharForField(value, fieldIndex) THEN FALSE
    ELSE IF hasLetters(value) THEN validateLetterValue(value, fieldIndex)
    ELSE validateStepValue(value)

(***************************************************************************)
(* The model struct (src/main.go:127-139), the commands in flight and the  *)
(* calls the last step made.                                               *)
(***************************************************************************)
VARIABLES
    inputs,        \* inputs[i].Value(), i in 0..4
    focused,       \* inputs[i].Focused()
    focusIndex,
    description,
    nextRun,
    err,           \* <<>> is nil, else the parts of the error message
    width,
    height,
    showHelp,
    copyMessage,
    lastCronExpr,
    timers,        \* tea.Tick commands started and not yet delivered
    trace,         \* calls made by the last step: <<callee, argument, outcome>>
    clock,         \* what time.Now() returns, in periods of the schedule
    nextRunAt,     \* the instant nextRun shows, read while nextRun is not empty
    vValue,        \* Token Validator under test: its arguments and verdict
    vField,
    vResult

progVars == << inputs, focused, focusIndex, description, nextRun, err, width,
               height, showHelp, copyMessage, lastCronExpr, timers, trace,
               clock, nextRunAt >>

valVars == << vValue, vField, vResult >>

vars == << progVars, valVars >>

Fields == 0..(numCronFields - 1)

fieldNames == [ i \in Fields |->
    CASE i = 0 -> "minute" [] i = 1 -> "hour" [] i = 2 -> "day"
      [] i = 3 -> "month"  [] i = 4 -> "weekday" ]

copyMessageText == <<"Copied!">>

copyFailedText == <<"Failed to copy">>

copyUnavailableText == <<"Clipboard not available">>

ErrNil == <<>>

ErrInvalidValue(name) == << "invalid value in field", name >>

ErrDescription == << "description error" >>

ErrCronParse == << "failed to parse cron expression", "parser error" >>

\* a variant that leaves every field at its placeholder
initialValuesPlaceholders == [ i \in Fields |-> <<"*">> ]

\* strings.Fields(initialCron)
initialValues == [ i \in Fields |->
    CASE i = 0 -> <<"2","0">> [] i = 1 -> <<"4">> [] OTHER -> <<"*">> ]

(***************************************************************************)
(* Expression Synthesizer and Change-Gated Updater (src/main.go:396-490).  *)
(***************************************************************************)
\* strings.Join(parts, " ") of parts[from..4]
RECURSIVE JoinFrom(_, _)
JoinFrom(parts, from) ==
    IF from = numCronFields - 1 THEN parts[from]
    ELSE parts[from] \o <<" ">> \o JoinFrom(parts, from + 1)

\* a variant that joins the raw values, an empty field left empty
buildCronExpressionRaw(ins) == JoinFrom(ins, 0)

buildCronExpression(ins) ==
    JoinFrom([ i \in Fields |-> IF ins[i] = <<>> THEN <<"*">> ELSE ins[i] ], 0)

WhiteSpace == { " ", "\t", "\n", "\r" }

\* strings.TrimSpace
TrimSpace(s) ==
    LET keep == { i \in 1..Len(s) : s[i] \notin WhiteSpace }
    IN  IF keep = {} THEN <<>>
        ELSE SubSeq(s, CHOOSE i \in keep : \A j \in keep : i <= j,
                       CHOOSE i \in keep : \A j \in keep : i >= j)

\* a variant that keeps looping and reports the last field it rejects
validateCronPartsLastField(ins) ==
    LET bad == { index \in Fields : ~isValidCronPart(ins[index], index) }
    IN  IF bad = {} THEN ErrNil
        ELSE ErrInvalidValue(fieldNames[CHOOSE i \in bad : \A j \in bad : i >= j])

\* the error of validateCronParts, ErrNil when every field passes
validateCronParts(ins) ==
    LET bad == { index \in Fields : ~isValidCronPart(ins[index], index) }
    IN  IF bad = {} THEN ErrNil
        ELSE ErrInvalidValue(fieldNames[CHOOSE i \in bad : \A j \in bad : i <= j])

\* what ToDescription returns for an expression it accepts
DescriptionOf(cronExpr) == <<"description of ">> \o cronExpr

\* schedule.Next(t): the first activation after t, the clock counting activations
NextOccurrence(t) == t + 1

\* schedule.Next(time.Now()), formatted
NextRunOf(cronExpr) == <<"next run of ">> \o cronExpr

clearDescription(d) ==
    [d EXCEPT !.description = <<>>, !.nextRun = <<>>, !.err = ErrNil]

\* a variant whose success branch leaves err as it was
updateCronDescriptionKeepsErr(d, cronExpr, descOK) ==
    LET called == [d EXCEPT !.trace = Append(@,
                      <<"ToDescription", cronExpr, IF descOK THEN "ok" ELSE "error">>)]
    IN  IF ~descOK
        THEN [called EXCEPT !.err = ErrDescription, !.description = <<>>,
                            !.nextRun = <<>>]
        ELSE [called EXCEPT !.description = DescriptionOf(cronExpr)]

\* descOK: whether the description collaborator accepts the expression
updateCronDescription(d, cronExpr, descOK) ==
    LET called == [d EXCEPT !.trace = Append(@,
                      <<"ToDescription", cronExpr, IF descOK THEN "ok" ELSE "error">>)]
    IN  IF ~descOK
        THEN [called EXCEPT !.err = ErrDescription, !.description = <<>>,
                            !.nextRun = <<>>]
        ELSE [called EXCEPT !.description = DescriptionOf(cronExpr), !.err = ErrNil]

\* a variant whose failure branch leaves nextRun as it was
updateNextRunTimeKeepsNextRun(d, cronExpr, parseOK) ==
    LET called == [d EXCEPT !.trace = Append(@,
                      <<"Parse", cronExpr, IF parseOK THEN "ok" ELSE "error">>)]
    IN  IF ~parseOK
        THEN [called EXCEPT !.err = ErrCronParse]
        ELSE [called EXCEPT !.nextRun = NextRunOf(cronExpr),
                            !.nextRunAt = NextOccurrence(d.now)]

\* a variant whose failure branch keeps an error that is already there
updateNextRunTimeFirstErrorWins(d, cronExpr, parseOK) ==
    LET called == [d EXCEPT !.trace = Append(@,
                      <<"Parse", cronExpr, IF parseOK THEN "ok" ELSE "error">>)]
    IN  IF ~parseOK
        THEN [called EXCEPT !.nextRun = <<>>,
                            !.err = IF @ = ErrNil THEN ErrCronParse ELSE @]
        ELSE [called EXCEPT !.nextRun = NextRunOf(cronExpr),
                            !.nextRunAt = NextOccurrence(d.now)]

\* parseOK: whether the schedule parser accepts the expression
updateNextRunTime(d, cronExpr, parseOK) ==
    LET called == [d EXCEPT !.trace = Append(@,
                      <<"Parse", cronExpr, IF parseOK THEN "ok" ELSE "error">>)]
    IN  IF ~parseOK
        THEN [called EXCEPT !.nextRun = <<>>, !.err = ErrCronParse]
        ELSE [called EXCEPT !.nextRun = NextRunOf(cronExpr),
                            !.nextRunAt = NextOccurrence(d.now)]

\* a variant without the comparison against lastCronExpr
updateDescriptionUngated(d, ins, descOK, parseOK) ==
    LET cronExpr == buildCronExpression(ins)
        seen     == [d EXCEPT !.trace = Append(@, <<"buildCronExpression", cronExpr, "ok">>),
                              !.lastCronExpr = cronExpr]
    IN  IF TrimSpace(cronExpr) = <<>> THEN clearDescription(seen)
        ELSE LET verr    == validateCronParts(ins)
                 checked == [seen EXCEPT !.trace = Append(@,
                                <<"validateCronParts", cronExpr,
                                  IF verr = ErrNil THEN "ok" ELSE "error">>)]
             IN  IF verr # ErrNil
                 THEN [checked EXCEPT !.err = verr, !.description = <<>>,
                                      !.nextRun = <<>>]
                 ELSE updateNextRunTime(
                          updateCronDescription(checked, cronExpr, descOK),
                          cronExpr, parseOK)

\* a variant that reports a rejected field and leaves the derived texts as they were
updateDescriptionKeepsTexts(d, ins, descOK, parseOK) ==
    LET cronExpr == buildCronExpression(ins)
        built    == [d EXCEPT !.trace = Append(@, <<"buildCronExpression", cronExpr, "ok">>)]
    IN  IF cronExpr = d.lastCronExpr THEN built
        ELSE LET seen == [built EXCEPT !.lastCronExpr = cronExpr]
             IN  IF TrimSpace(cronExpr) = <<>> THEN clearDescription(seen)
                 ELSE LET verr    == validateCronParts(ins)
                          checked == [seen EXCEPT !.trace = Append(@,
                                         <<"validateCronParts", cronExpr,
                                           IF verr = ErrNil THEN "ok" ELSE "error">>)]
                      IN  IF verr # ErrNil
                          THEN [checked EXCEPT !.err = verr]
                          ELSE updateNextRunTime(
                                   updateCronDescription(checked, cronExpr, descOK),
                                   cronExpr, parseOK)

\* a variant that records lastCronExpr only when the cycle ends without an error
updateDescriptionRecordsOnSuccess(d, ins, descOK, parseOK) ==
    LET cronExpr == buildCronExpression(ins)
        built    == [d EXCEPT !.trace = Append(@, <<"buildCronExpression", cronExpr, "ok">>)]
    IN  IF cronExpr = d.lastCronExpr THEN built
        ELSE LET done ==
                    IF TrimSpace(cronExpr) = <<>> THEN clearDescription(built)
                    ELSE LET verr    == validateCronParts(ins)
                             checked == [built EXCEPT !.trace = Append(@,
                                            <<"validateCronParts", cronExpr,
                                              IF verr = ErrNil THEN "ok" ELSE "error">>)]
                         IN  IF verr # ErrNil
                             THEN [checked EXCEPT !.err = verr, !.description = <<>>,
                                                  !.nextRun = <<>>]
                             ELSE updateNextRunTime(
                                      updateCronDescription(checked, cronExpr, descOK),
                                      cronExpr, parseOK)
             IN  IF done.err = ErrNil THEN [done EXCEPT !.lastCronExpr = cronExpr]
                 ELSE done

\* a variant that returns once the description collaborator has failed
updateDescriptionStopsOnDescriptionError(d, ins, descOK, parseOK) ==
    LET cronExpr == buildCronExpression(ins)
        built    == [d EXCEPT !.trace = Append(@, <<"buildCronExpression", cronExpr, "ok">>)]
    IN  IF cronExpr = d.lastCronExpr THEN built
        ELSE LET seen == [built EXCEPT !.lastCronExpr = cronExpr]
             IN  IF TrimSpace(cronExpr) = <<>> THEN clearDescription(seen)
                 ELSE LET verr    == validateCronParts(ins)
                          checked == [seen EXCEPT !.trace = Append(@,
                                         <<"validateCronParts", cronExpr,
                                           IF verr = ErrNil THEN "ok" ELSE "error">>)]
                      IN  IF verr # ErrNil
                          THEN [checked EXCEPT !.err = verr, !.description = <<>>,
                                               !.nextRun = <<>>]
                          ELSE LET described ==
                                       updateCronDescription(checked, cronExpr, descOK)
                               IN  IF ~descOK THEN described
                                   ELSE updateNextRunTime(described, cronExpr, parseOK)

\* a variant without the branch for an expression that trims to nothing
updateDescriptionNoBlankBranch(d, ins, descOK, parseOK) ==
    LET cronExpr == buildCronExpression(ins)
        built    == [d EXCEPT !.trace = Append(@, <<"buildCronExpression", cronExpr, "ok">>)]
    IN  IF cronExpr = d.lastCronExpr THEN built
        ELSE LET seen    == [built EXCEPT !.lastCronExpr = cronExpr]
                 verr    == validateCronParts(ins)
                 checked == [seen EXCEPT !.trace = Append(@,
                                <<"validateCronParts", cronExpr,
                                  IF verr = ErrNil THEN "ok" ELSE "error">>)]
             IN  IF verr # ErrNil
                 THEN [checked EXCEPT !.err = verr, !.description = <<>>,
                                      !.nextRun = <<>>]
                 ELSE updateNextRunTime(
                          updateCronDescription(checked, cronExpr, descOK),
                          cronExpr, parseOK)

\* d: the fields updateDescription reads and writes; ins: the input values
updateDescription(d, ins, descOK, parseOK) ==
    LET cronExpr == buildCronExpression(ins)
        built    == [d EXCEPT !.trace = Append(@, <<"buildCronExpression", cronExpr, "ok">>)]
    IN  IF cronExpr = d.lastCronExpr THEN built
        ELSE LET seen == [built EXCEPT !.lastCronExpr = cronExpr]
             IN  IF TrimSpace(cronExpr) = <<>> THEN clearDescription(seen)
                 ELSE LET verr    == validateCronParts(ins)
                          checked == [seen EXCEPT !.trace = Append(@,
                                         <<"validateCronParts", cronExpr,
                                           IF verr = ErrNil THEN "ok" ELSE "error">>)]
                      IN  IF verr # ErrNil
                          THEN [checked EXCEPT !.err = verr, !.description = <<>>,
                                               !.nextRun = <<>>]
                          ELSE updateNextRunTime(
                                   updateCronDescription(checked, cronExpr, descOK),
                                   cronExpr, parseOK)

\* the derived fields of the model, with the calls of the step so far
Derived(tr) ==
    [ description |-> description, nextRun |-> nextRun, err |-> err,
      lastCronExpr |-> lastCronExpr, trace |-> tr,
      nextRunAt |-> nextRunAt, now |-> clock ]

SetDerived(d) ==
    /\ description' = d.description
    /\ nextRun' = d.nextRun
    /\ err' = d.err
    /\ lastCronExpr' = d.lastCronExpr
    /\ trace' = d.trace
    /\ nextRunAt' = d.nextRunAt

(***************************************************************************)
(* initialModel (src/main.go:141-179): the descriptor is constructed and   *)
(* the first updateDescription describes "20 4 * * *".                     *)
(***************************************************************************)
InitDerived ==
    updateDescription(
        [ description |-> <<>>, nextRun |-> <<>>, err |-> ErrNil,
          lastCronExpr |-> <<>>, trace |-> <<>>, nextRunAt |-> 0, now |-> 0 ],
        initialValues, TRUE, TRUE)

InitProg ==
    /\ inputs = initialValues
    /\ focused = [ i \in Fields |-> i = 0 ]
    /\ focusIndex = 0
    /\ showHelp = FALSE
    /\ width = 0
    /\ height = 0
    /\ copyMessage = <<>>
    /\ timers = 0
    /\ description = InitDerived.description
    /\ nextRun = InitDerived.nextRun
    /\ err = InitDerived.err
    /\ lastCronExpr = InitDerived.lastCronExpr
    /\ trace = InitDerived.trace
    /\ clock = 0
    /\ nextRunAt = InitDerived.nextRunAt

(***************************************************************************)
(* The input widget: textinput.Model as the editor uses it.                *)
(***************************************************************************)
\* runes a key press can deliver to the focused field
TypedRunes == { "S" }

TotalChars(ins) ==
    Len(ins[0]) + Len(ins[1]) + Len(ins[2]) + Len(ins[3]) + Len(ins[4])

\* textinput.Update on a focused field, cursor at the end of the value
\* msg: <<"rune", r>>, <<"backspace">> or <<"other">>
widgetUpdate(value, msg) ==
    CASE msg[1] = "rune" ->
            IF Len(value) < inputCharLimit THEN Append(value, msg[2]) ELSE value
      [] msg[1] = "backspace" ->
            IF value = <<>> THEN value ELSE SubSeq(value, 1, Len(value) - 1)
      [] OTHER -> value

\* a variant that hands the message to every field
updateInputsAll(ins, foc, msg) ==
    [ index \in Fields |-> widgetUpdate(ins[index], msg) ]

\* updateInputs: every focused field receives the message
updateInputs(ins, foc, msg) ==
    [ index \in Fields |->
        IF foc[index] THEN widgetUpdate(ins[index], msg) ELSE ins[index] ]

\* a variant that resets an out-of-range index to the last field
clampFocusIndexToLast(fi) ==
    IF fi < 0 \/ fi >= numCronFields THEN numCronFields - 1 ELSE fi

\* the bounds check that opens Update
clampFocusIndex(fi) == IF fi < 0 \/ fi >= numCronFields THEN 0 ELSE fi

(***************************************************************************)
(* View (src/main.go:594-607): the line renderDescription writes, without  *)
(* its styling and centring.                                               *)
(***************************************************************************)
\* err.Error(): a wrapping error prints its parts with ": " between them
ErrorText(e) == IF Len(e) = 2 THEN << e[1], ": ", e[2] >> ELSE e

renderDescription(desc, e) ==
    IF desc # <<>> THEN <<"\"">> \o desc \o <<"\"">>
    ELSE IF e # ErrNil THEN <<"Error: ">> \o ErrorText(e)
    ELSE <<>>

(***************************************************************************)
(* Update (src/main.go:342-370), one action per message.                   *)
(***************************************************************************)
\* a variant of the default path that skips updateDescription
ForwardToInputsNoUpdate(msg) ==
    /\ inputs' = updateInputs(inputs, focused, msg)
    /\ trace' = <<>>
    /\ focusIndex' = clampFocusIndex(focusIndex)
    /\ UNCHANGED << valVars, clock, nextRunAt,
                    focused, description, nextRun, err, lastCronExpr, width,
                    height, showHelp, copyMessage, timers >>

\* the default path of Update: updateInputs, then updateDescription
ForwardToInputs(msg) ==
    \E descOK \in BOOLEAN, parseOK \in BOOLEAN :
        /\ inputs' = updateInputs(inputs, focused, msg)
        /\ SetDerived(updateDescription(Derived(<<>>), inputs', descOK, parseOK))
        /\ focusIndex' = clampFocusIndex(focusIndex)
        /\ UNCHANGED << valVars, clock,
                       focused, width, height, showHelp, copyMessage, timers >>

\* a variant in which the tick is consumed and the message stays
ClearCopyMessageDropped ==
    /\ timers > 0
    /\ timers' = timers - 1
    /\ focusIndex' = clampFocusIndex(focusIndex)
    /\ trace' = <<>>
    /\ UNCHANGED << valVars, clock, nextRunAt, inputs, focused, description, nextRun, err,
                    width, height, showHelp, copyMessage, lastCronExpr >>

\* a tea.Tick delivers clearCopyMessage
ClearCopyMessage ==
    /\ timers > 0
    /\ timers' = timers - 1
    /\ copyMessage' = <<>>
    /\ focusIndex' = clampFocusIndex(focusIndex)
    /\ trace' = <<>>
    /\ UNCHANGED << valVars, clock, nextRunAt,
                    inputs, focused, description, nextRun, err, width, height,
                    showHelp, lastCronExpr >>

\* tea.WindowSizeMsg
WindowSize ==
    \E w \in {80}, h \in {24} :
        /\ width' = w
        /\ height' = h
        /\ focusIndex' = clampFocusIndex(focusIndex)
        /\ trace' = <<>>
        /\ UNCHANGED << valVars, clock, nextRunAt,
                    inputs, focused, description, nextRun, err, showHelp,
                        copyMessage, lastCronExpr, timers >>

\* "ctrl+c", "esc": Update returns tea.Quit
KeyQuit ==
    /\ focusIndex' = clampFocusIndex(focusIndex)
    /\ trace' = <<>>
    /\ UNCHANGED << valVars, clock, nextRunAt,
                    inputs, focused, description, nextRun, err, width, height,
                    showHelp, copyMessage, lastCronExpr, timers >>

\* strings.Join of the raw values, as handleCopyToClipboard builds it
copyExpression(ins) == JoinFrom(ins, 0)

\* a variant of "y" that starts no timer when the clipboard is unavailable
KeyCopyNoTickWhenUnavailable ==
    /\ timers < MaxTimers
    /\ \E outcome \in {"unavailable", "failed", "copied"} :
        /\ copyMessage' = CASE outcome = "unavailable" -> copyUnavailableText
                            [] outcome = "failed" -> copyFailedText
                            [] OTHER -> copyMessageText
        /\ trace' = IF outcome = "unavailable" THEN <<>>
                    ELSE << <<"WriteAll", copyExpression(inputs),
                              IF outcome = "copied" THEN "ok" ELSE "error">> >>
        /\ timers' = IF outcome = "unavailable" THEN timers ELSE timers + 1
    /\ focusIndex' = clampFocusIndex(focusIndex)
    /\ UNCHANGED << valVars, clock, nextRunAt,
                    inputs, focused, description, nextRun, err, width, height,
                    showHelp, lastCronExpr >>

\* a variant of "y" that stores a failed write in err
KeyCopyReportsErr ==
    /\ timers < MaxTimers
    /\ \E outcome \in {"unavailable", "failed", "copied"} :
        /\ copyMessage' = CASE outcome = "unavailable" -> copyUnavailableText
                            [] outcome = "failed" -> copyFailedText
                            [] OTHER -> copyMessageText
        /\ trace' = IF outcome = "unavailable" THEN <<>>
                    ELSE << <<"WriteAll", copyExpression(inputs),
                              IF outcome = "copied" THEN "ok" ELSE "error">> >>
        /\ err' = IF outcome = "failed" THEN copyFailedText ELSE err
    /\ timers' = timers + 1
    /\ focusIndex' = clampFocusIndex(focusIndex)
    /\ UNCHANGED << valVars, clock, nextRunAt, inputs, focused, description, nextRun,
                    width, height, showHelp, lastCronExpr >>

\* "y": handleCopyToClipboard; the clipboard is unavailable, fails or takes the text
KeyCopy ==
    /\ timers < MaxTimers
    /\ \E outcome \in {"unavailable", "failed", "copied"} :
        /\ copyMessage' = CASE outcome = "unavailable" -> copyUnavailableText
                            [] outcome = "failed" -> copyFailedText
                            [] OTHER -> copyMessageText
        /\ trace' = IF outcome = "unavailable" THEN <<>>
                    ELSE << <<"WriteAll", copyExpression(inputs),
                              IF outcome = "copied" THEN "ok" ELSE "error">> >>
    /\ timers' = timers + 1
    /\ focusIndex' = clampFocusIndex(focusIndex)
    /\ UNCHANGED << valVars, clock, nextRunAt,
                    inputs, focused, description, nextRun, err, width, height,
                    showHelp, lastCronExpr >>

\* a variant of "?" that toggles the help and lets the key reach the inputs
KeyHelpTyped ==
    \E descOK \in BOOLEAN, parseOK \in BOOLEAN :
        /\ showHelp' = ~showHelp
        /\ inputs' = updateInputs(inputs, focused, <<"rune", "?">>)
        /\ SetDerived(updateDescription(Derived(<<>>), inputs', descOK, parseOK))
        /\ focusIndex' = clampFocusIndex(focusIndex)
        /\ UNCHANGED << valVars, clock,
                       focused, width, height, copyMessage, timers >>

\* "?"
KeyHelp ==
    /\ showHelp' = ~showHelp
    /\ focusIndex' = clampFocusIndex(focusIndex)
    /\ trace' = <<>>
    /\ UNCHANGED << valVars, clock, nextRunAt,
                    inputs, focused, description, nextRun, err, width, height,
                    copyMessage, lastCronExpr, timers >>

\* a variant that focuses the field at `to` and blurs none
moveFocusNoBlur(foc, from, to) == [ foc EXCEPT ![to] = TRUE ]

\* Blur the field at `from`, Focus the field at `to`
moveFocus(foc, from, to) == [ [foc EXCEPT ![from] = FALSE] EXCEPT ![to] = TRUE ]

\* a variant in which the space key also reaches the focused field
KeyTabTypesSpace ==
    \E descOK \in BOOLEAN, parseOK \in BOOLEAN :
        LET fi == clampFocusIndex(focusIndex)
            to == (fi + 1) % numCronFields
        IN  /\ inputs' = updateInputs(inputs, focused, <<"rune", " ">>)
            /\ SetDerived(updateDescription(Derived(<<>>), inputs', descOK, parseOK))
            /\ focusIndex' = to
            /\ focused' = moveFocus(focused, fi, to)
            /\ UNCHANGED << valVars, clock, width, height, showHelp, copyMessage, timers >>

\* "tab", " ", "enter": handleTabNavigation
KeyTab ==
    LET fi == clampFocusIndex(focusIndex)
        to == (fi + 1) % numCronFields
    IN  /\ focusIndex' = to
        /\ focused' = moveFocus(focused, fi, to)
        /\ trace' = <<>>
        /\ UNCHANGED << valVars, clock, nextRunAt,
                    inputs, description, nextRun, err, width, height, showHelp,
                        copyMessage, lastCronExpr, timers >>

\* a variant of shift+tab that stops at the first field
KeyShiftTabNoWrap ==
    LET fi == clampFocusIndex(focusIndex)
        to == IF fi - 1 < 0 THEN 0 ELSE fi - 1
    IN  /\ focusIndex' = to
        /\ focused' = moveFocus(focused, fi, to)
        /\ trace' = <<>>
        /\ UNCHANGED << valVars, clock, nextRunAt,
                    inputs, description, nextRun, err, width, height, showHelp,
                        copyMessage, lastCronExpr, timers >>

\* "shift+tab": handleShiftTabNavigation
KeyShiftTab ==
    LET fi == clampFocusIndex(focusIndex)
        to == IF fi - 1 < 0 THEN numCronFields - 1 ELSE fi - 1
    IN  /\ focusIndex' = to
        /\ focused' = moveFocus(focused, fi, to)
        /\ trace' = <<>>
        /\ UNCHANGED << valVars, clock, nextRunAt,
                    inputs, description, nextRun, err, width, height, showHelp,
                        copyMessage, lastCronExpr, timers >>

\* a variant of backspace that retreats from an empty field with wraparound
KeyBackspaceWraps ==
    LET fi == clampFocusIndex(focusIndex)
        to == IF fi - 1 < 0 THEN numCronFields - 1 ELSE fi - 1
    IN  IF inputs[fi] = <<>>
        THEN /\ focusIndex' = to
             /\ focused' = moveFocus(focused, fi, to)
             /\ trace' = <<>>
             /\ UNCHANGED << valVars, clock, nextRunAt,
                    inputs, description, nextRun, err, width, height,
                             showHelp, copyMessage, lastCronExpr, timers >>
        ELSE ForwardToInputs(<<"backspace">>)

\* "backspace": handleBackspaceNavigation, else the key goes to the inputs
KeyBackspace ==
    LET fi == clampFocusIndex(focusIndex)
    IN  IF inputs[fi] = <<>> /\ fi > 0
        THEN /\ focusIndex' = fi - 1
             /\ focused' = moveFocus(focused, fi, fi - 1)
             /\ trace' = <<>>
             /\ UNCHANGED << valVars, clock, nextRunAt,
                    inputs, description, nextRun, err, width, height,
                             showHelp, copyMessage, lastCronExpr, timers >>
        ELSE ForwardToInputs(<<"backspace">>)

\* a rune key that is no shortcut, typed into the focused field
KeyRune ==
    /\ TotalChars(inputs) < MaxCharsAll
    /\ \E r \in TypedRunes : ForwardToInputs(<<"rune", r>>)

\* the same key, offered while the focused field holds fewer than MaxLen characters
EditKeyRune ==
    /\ Len(inputs[clampFocusIndex(focusIndex)]) < MaxLen
    /\ \E r \in TypedRunes : ForwardToInputs(<<"rune", r>>)

\* any other message (a key the widget does not edit with, a cursor blink)
OtherMsg == ForwardToInputs(<<"other">>)

\* time passes between two messages: the schedule reaches its next activation
TimePasses ==
    /\ clock < MaxClock
    /\ clock' = clock + 1
    /\ UNCHANGED << valVars, inputs, focused, focusIndex, description, nextRun, err, width,
                    height, showHelp, copyMessage, lastCronExpr, timers, trace, nextRunAt >>

Init ==
    /\ InitProg
    /\ vValue = <<>>
    /\ vField = 0
    /\ vResult = "pending"

Next ==
    \/ ClearCopyMessage
    \/ WindowSize
    \/ KeyQuit
    \/ KeyCopy
    \/ KeyHelp
    \/ KeyTab
    \/ KeyShiftTab
    \/ KeyBackspace
    \/ KeyRune
    \/ OtherMsg

\* the whole editor
Spec == Init /\ [][Next]_vars

\* the editing core: the keys that move the focus or edit a field
NextEdit ==
    \/ KeyTab
    \/ KeyShiftTab
    \/ KeyBackspace
    \/ EditKeyRune
    \/ OtherMsg

SpecEdit == Init /\ [][NextEdit]_vars

\* focus indexes a caller can leave in the model before an Update, as the tests do
StartIndexes == { 0 - 10, 0 - 1, 0, 5, 10 }

InitClamp ==
    /\ focusIndex \in StartIndexes
    /\ inputs = initialValues
    /\ focused = [ i \in Fields |-> i = 0 ]
    /\ showHelp = FALSE
    /\ width = 0
    /\ height = 0
    /\ copyMessage = <<>>
    /\ timers = 0
    /\ description = InitDerived.description
    /\ nextRun = InitDerived.nextRun
    /\ err = InitDerived.err
    /\ lastCronExpr = InitDerived.lastCronExpr
    /\ trace = InitDerived.trace
    /\ clock = 0
    /\ nextRunAt = InitDerived.nextRunAt
    /\ vValue = <<>>
    /\ vField = 0
    /\ vResult = "pending"

\* the whole editor, started with any of those focus indexes
SpecClamp == InitClamp /\ [][Next]_vars

\* the editor while time passes between its messages
NextClock ==
    \/ KeyTab
    \/ KeyBackspace
    \/ OtherMsg
    \/ TimePasses

SpecClock == Init /\ [][NextClock]_vars

\* every message Update handles, without the typing of runes
NextFrame ==
    \/ ClearCopyMessage
    \/ WindowSize
    \/ KeyQuit
    \/ KeyCopy
    \/ KeyHelp
    \/ KeyTab
    \/ KeyShiftTab
    \/ KeyBackspace
    \/ OtherMsg

SpecFrame == Init /\ [][NextFrame]_vars

\* copying and the ticks it starts, every started tick delivered in the end
NextCopy ==
    \/ KeyCopy
    \/ ClearCopyMessage
    \/ KeyTab
    \/ KeyBackspace

SpecCopy == Init /\ [][NextCopy]_vars /\ WF_vars(ClearCopyMessage)

\* values SetValue can leave in a field that no key types
SetValues == { <<>>, <<"*">>, <<" ">>, <<" ", " ">> }

\* initialModel, then the fields, lastCronExpr and err set by the caller
InitSetValue ==
    /\ inputs \in [ Fields -> SetValues ]
    /\ lastCronExpr \in { <<>>, InitDerived.lastCronExpr }
    /\ err \in { ErrNil, ErrDescription }
    /\ focused = [ i \in Fields |-> i = 0 ]
    /\ focusIndex = 0
    /\ showHelp = FALSE
    /\ width = 0
    /\ height = 0
    /\ copyMessage = <<>>
    /\ timers = 0
    /\ description = InitDerived.description
    /\ nextRun = InitDerived.nextRun
    /\ trace = InitDerived.trace
    /\ clock = 0
    /\ nextRunAt = InitDerived.nextRunAt
    /\ vValue = <<>>
    /\ vField = 0
    /\ vResult = "pending"

\* updateDescription over fields set that way
SpecSetValue == InitSetValue /\ [][OtherMsg]_vars

(***************************************************************************)
(* The Token Validator on its own: isValidCronPart applied to one value    *)
(* and one field index.                                                    *)
(***************************************************************************)
\* the pieces the values under test are put together from
Tokens ==
    { <<"0">>, <<"5">>, <<"*">>, <<"/">>, <<"-">>, <<",">>, <<"#">>, <<"X">>,
      <<"J","A","N">>, <<"M","O","N">>, <<"j","a","n">> }

RECURSIVE TokenValues(_)
TokenValues(n) ==
    IF n = 0 THEN { <<>> }
    ELSE LET shorter == TokenValues(n - 1)
         IN  shorter \cup { v \o t : v \in shorter, t \in Tokens }

MonthNames == { validMonths[k] : k \in 1..Len(validMonths) }

DayNames == { validDays[k] : k \in 1..Len(validDays) }

\* values of the tests and the README that the tokens do not give
ExampleValues ==
    MonthNames \cup DayNames \cup
    { <<"J","A">>, <<"A","B">>, <<"S">>, <<"x">>, <<"a">>, <<"X","Y","Z">>,
      <<"J","a","n">>, <<"m","o","n">>, <<"M","o","N">>,
      <<"J","A","N","U","A","R","Y">>, <<"T","U","E","S","D","A","Y">>,
      <<"J","A","N","-","D","E","C">>, <<"M","O","N","-","F","R","I">>,
      <<"S","U","N","-","S","A","T">>, <<"1","-","5","/","2">>,
      <<"1","-","-","5">>, <<"*","/","5",",","1","0">>, <<"*","/","1","5">>,
      <<"3","2">>, <<"2","5">>, <<"1","2","3">>, <<"5","6","7","8">>,
      <<"@">>, <<"!">>, <<"?">>, <<" ">>, <<"1","s">>, <<"1","2","x">> }

\* values with a name before or after other allowed characters
LeadingRunValues ==
    { <<"1","-","D","E","C">>, <<"*","J","A","N">>, <<"1",",","M","O","N">>,
      <<"J","A","N","-","X","Y","Z">>, <<"M","O","N","/">>, <<"J","A","N","*">> }

ValidatorValues == TokenValues(MaxTokens) \cup ExampleValues \cup LeadingRunValues

InitValidator ==
    /\ InitProg
    /\ vValue \in ValidatorValues
    /\ vField \in Fields
    /\ vResult = "pending"

Validate ==
    /\ vResult = "pending"
    /\ vResult' = IF isValidCronPart(vValue, vField) THEN "valid" ELSE "invalid"
    /\ UNCHANGED << vValue, vField, progVars >>

SpecValidator == InitValidator /\ [][Validate]_vars

(***************************************************************************)
(* Properties of the Change-Gated Updater.                                 *)
(***************************************************************************)
\* the callees of the calls in a trace
Callees(tr) == { tr[k][1] : k \in 1..Len(tr) }

\* the step that led here ran updateDescription
RanUpdater(tr) == "buildCronExpression" \in Callees(tr)

\* the validator and the two collaborators
Collaborators == { "validateCronParts", "ToDescription", "Parse" }

Rejected(ins) == { i \in Fields : ~isValidCronPart(ins[i], i) }

\* C1: when updateDescription runs and the expression built from the fields equals
\* lastCronExpr, it calls neither the validator nor the description collaborator nor
\* the schedule parser and leaves description, nextRun and err as they were; so a
\* second run in a row over unchanged field values calls none of them.
C1_ChangeGating ==
    [][ /\ (RanUpdater(trace') /\ buildCronExpression(inputs') = lastCronExpr)
            => /\ Callees(trace') \cap Collaborators = {}
               /\ description' = description
               /\ nextRun' = nextRun
               /\ err' = err
        /\ (RanUpdater(trace) /\ RanUpdater(trace') /\ inputs' = inputs)
            => Callees(trace') \cap Collaborators = {} ]_vars

\* a gated run that kept an error: the fields changed ("*" deleted) and the expression did not
C1_Witness ==
    /\ Callees(trace) = { "buildCronExpression" }
    /\ err # ErrNil
    /\ inputs[2] = <<>>
    /\ lastCronExpr = buildCronExpression(inputs)

\* C2: a cycle that finds a field the Token Validator rejects ends with the
\* "invalid value in field" error, description and nextRun empty, and neither the
\* description collaborator nor the schedule parser called in that cycle.
C2_RejectedFieldEndsCycle ==
    ("validateCronParts" \in Callees(trace) /\ Rejected(inputs) # {})
        => /\ Len(err) = 2
           /\ err[1] = "invalid value in field"
           /\ description = <<>>
           /\ nextRun = <<>>
           /\ "ToDescription" \notin Callees(trace)
           /\ "Parse" \notin Callees(trace)

C2_Witness ==
    /\ "validateCronParts" \in Callees(trace)
    /\ Rejected(inputs) = { 3 }
    /\ err = << "invalid value in field", "month" >>
    /\ description = <<>>

\* C3: the fields are validated in the order 0..4 and the error names the
\* lowest-index rejected field, whatever the other fields hold.
C3_FirstRejectedFieldNamed ==
    "validateCronParts" \in Callees(trace)
        => \A i \in Fields :
              (i \in Rejected(inputs) /\ \A j \in 0..(i - 1) : j \notin Rejected(inputs))
                  => err = << "invalid value in field",
                              << "minute", "hour", "day", "month", "weekday" >>[i + 1] >>

\* hour, month and weekday rejected at once: the error names the hour
C3_Witness ==
    /\ "validateCronParts" \in Callees(trace)
    /\ Rejected(inputs) = { 1, 3, 4 }
    /\ err = << "invalid value in field", "hour" >>

(***************************************************************************)
(* Properties of the Token Validator.                                      *)
(***************************************************************************)
Checked == vResult # "pending"

\* the characters of the cron syntax, without and with the names
SyntaxChars == Digits \cup { "*", ",", "-", "/" }

AllowedChars(f) == SyntaxChars \cup (IF f \in {3, 4} THEN UpperLetters ELSE {})

MadeOf(v, chars) == \A i \in 1..Len(v) : v[i] \in chars

RECURSIVE LeadingLetters(_)
LeadingLetters(v) ==
    IF v = <<>> \/ Head(v) \notin UpperLetters THEN <<>>
    ELSE <<Head(v)>> \o LeadingLetters(Tail(v))

NamesOf(f) == IF f = 3 THEN MonthNames ELSE DayNames

\* "*" alone, or "*/" and one or more digits
StepForm(v) ==
    \/ v = <<"*">>
    \/ /\ Len(v) >= 3
       /\ v[1] = "*"
       /\ v[2] = "/"
       /\ \A i \in 3..Len(v) : v[i] \in Digits

\* C4: in the month and weekday fields a value of allowed characters with a letter in
\* it is valid exactly when its leading run of letters is 3 or more long and holds
\* one of the field's abbreviations as a substring.
C4_LetterValues ==
    ( /\ Checked
      /\ vField \in {3, 4}
      /\ MadeOf(vValue, AllowedChars(vField))
      /\ \E i \in 1..Len(vValue) : vValue[i] \in UpperLetters )
        => ( vResult = "valid"
               <=> /\ Len(LeadingLetters(vValue)) >= 3
                   /\ \E name \in NamesOf(vField) : Contains(LeadingLetters(vValue), name) )

\* a name after a digit: the leading run is empty and the value is rejected
C4_Witness ==
    /\ vValue = <<"5", "-", "J","A","N">>
    /\ vField = 3
    /\ vResult = "invalid"

\* C5: in every field a non-empty value of digits, "*", ",", "-" and "/" is invalid
\* exactly when it starts with "*" and is neither "*" nor "*/" and digits.
C5_StepGrammar ==
    (Checked /\ vValue # <<>> /\ MadeOf(vValue, SyntaxChars))
        => ( vResult = "invalid" <=> (vValue[1] = "*" /\ ~StepForm(vValue)) )

C5_Witness ==
    /\ vValue = <<"*", "/">>
    /\ vField = 1
    /\ vResult = "invalid"

\* C6: in the month and weekday fields a value gets the verdict of its upper-cased form.
C6_CaseInsensitive ==
    (Checked /\ vField \in {3, 4})
        => ( vResult = "valid" <=> isValidCronPart(ToUpper(vValue), vField) )

\* C7: the empty string and "*" are valid in every field.
C7_EmptyAndWildcard ==
    (Checked /\ vValue \in { <<>>, <<"*">> }) => vResult = "valid"

C7_Witness ==
    /\ vValue = <<>>
    /\ vField = 4
    /\ vResult = "valid"

C9_NoRangeCheck ==
    ( /\ Checked
      /\ \/ (vValue # <<>> /\ MadeOf(vValue, Digits))
         \/ (StepForm(vValue) /\ vValue # <<"*">>) )
        => vResult = "valid"

C9_Witness ==
    /\ vValue = <<"*", "/", "0">>
    /\ vField = 2
    /\ vResult = "valid"

\* C10: a month abbreviation is accepted in the month field and rejected in the
\* weekday field; a weekday abbreviation is accepted in the weekday field and
\* rejected in the month field.
C10_NamesAreFieldSpecific ==
    Checked =>
        /\ (vValue \in MonthNames /\ vField = 3) => vResult = "valid"
        /\ (vValue \in MonthNames /\ vField = 4) => vResult = "invalid"
        /\ (vValue \in DayNames /\ vField = 4) => vResult = "valid"
        /\ (vValue \in DayNames /\ vField = 3) => vResult = "invalid"

C10_Witness ==
    /\ vValue = <<"M","A","R">>
    /\ vField = 4
    /\ vResult = "invalid"

(***************************************************************************)
(* Expression synthesis, the collaborators and the errors they leave.      *)
(***************************************************************************)
\* "*" for an empty value
OrStar(v) == IF v = <<>> THEN <<"*">> ELSE v

\* the calls of a trace that went to callee and ended with outcome
Outcomes(tr, callee) == { tr[k][3] : k \in { j \in 1..Len(tr) : tr[j][1] = callee } }

\* C11: the expression buildCronExpression returns is the five field values in field
\* order, joined by single spaces, each empty value replaced by "*"; it is built
\* whether or not the fields are valid, and five empty fields give "* * * * *".
C11_Synthesis ==
    RanUpdater(trace)
        => /\ trace[1][1] = "buildCronExpression"
           /\ trace[1][2] = OrStar(inputs[0]) \o <<" ">> \o OrStar(inputs[1]) \o <<" ">>
                            \o OrStar(inputs[2]) \o <<" ">> \o OrStar(inputs[3])
                            \o <<" ">> \o OrStar(inputs[4])
           /\ (\A i \in Fields : inputs[i] = <<>>)
                 => trace[1][2] = << "*", " ", "*", " ", "*", " ", "*", " ", "*" >>

\* every field deleted: the cycle describes "* * * * *"
C11_Witness ==
    /\ \A i \in Fields : inputs[i] = <<>>
    /\ Len(trace) = 4
    /\ trace[1] = << "buildCronExpression",
                     << "*", " ", "*", " ", "*", " ", "*", " ", "*" >>, "ok" >>
    /\ trace[3][1] = "ToDescription"

\* C12: a cycle that gets past the comparison leaves the built expression in
\* lastCronExpr whether it then fails or succeeds; so a cycle over the expression of
\* a failed cycle calls neither the validator nor a collaborator and keeps the error.
C12_LastSeenAlwaysRecorded ==
    [][ /\ RanUpdater(trace') => lastCronExpr' = trace'[1][2]
        /\ (err # ErrNil /\ RanUpdater(trace) /\ RanUpdater(trace')
                /\ trace'[1][2] = trace[1][2])
            => /\ Callees(trace') = { "buildCronExpression" }
               /\ err' = err ]_vars

\* a cycle repeated over the expression the schedule parser rejected
C12_Witness ==
    /\ Callees(trace) = { "buildCronExpression" }
    /\ err = ErrCronParse
    /\ lastCronExpr = trace[1][2]
    /\ inputs[0] = <<"2">>

\* C13: a cycle that validates a changed expression and finds no rejected field calls
\* the description collaborator and then the schedule parser, both with the built
\* expression, whatever the description collaborator returned.
C13_DescriptionThenParser ==
    ("validateCronParts" \in Callees(trace) /\ Rejected(inputs) = {})
        => /\ Len(trace) = 4
           /\ \E o1 \in {"ok", "error"}, o2 \in {"ok", "error"} :
                 /\ trace[3] = << "ToDescription", trace[1][2], o1 >>
                 /\ trace[4] = << "Parse", trace[1][2], o2 >>

\* the description collaborator failed and the parser was still called, and accepted
C13_Witness ==
    /\ Len(trace) = 4
    /\ trace[3] = << "ToDescription", lastCronExpr, "error" >>
    /\ trace[4] = << "Parse", lastCronExpr, "ok" >>

\* C14: a cycle in which the description collaborator fails ends with the
\* description error in err and nextRun empty.
C14_DescriptionFailure ==
    "error" \in Outcomes(trace, "ToDescription")
        => /\ err = ErrDescription
           /\ nextRun = <<>>

\* C15: a cycle in which the schedule parser rejects the expression ends with nextRun
\* empty and err the parse-failure error wrapping the parser's error.
C15_ParseFailure ==
    "error" \in Outcomes(trace, "Parse")
        => /\ nextRun = <<>>
           /\ Len(err) = 2
           /\ err[1] = "failed to parse cron expression"
           /\ err[2] = "parser error"

\* the description was stored and the parser then rejected the expression
C15_Witness ==
    /\ Outcomes(trace, "ToDescription") = { "ok" }
    /\ Outcomes(trace, "Parse") = { "error" }
    /\ nextRun = <<>>
    /\ err = ErrCronParse

\* C16: an error and a description are never both present.
C16_ErrorExcludesDescription ==
    err # ErrNil => description = <<>>

\* C17: from a state with err set, a cycle over a changed expression that passes
\* the validator and both collaborators leaves err nil, the collaborator's
\* description and a next-run time.
C17_ErrorsAreTransient ==
    [][ ( /\ err # ErrNil
          /\ Outcomes(trace', "validateCronParts") = { "ok" }
          /\ Outcomes(trace', "ToDescription") = { "ok" }
          /\ Outcomes(trace', "Parse") = { "ok" } )
        => /\ err' = ErrNil
           /\ description' = DescriptionOf(trace'[1][2])
           /\ nextRun' = NextRunOf(trace'[1][2]) ]_vars

\* the rejected "S" of the hour field deleted again: the cycle succeeded
C17_Witness ==
    /\ inputs = [ initialValues EXCEPT ![1] = <<>> ]
    /\ focusIndex = 1
    /\ Outcomes(trace, "Parse") = { "ok" }
    /\ err = ErrNil
    /\ description = DescriptionOf(lastCronExpr)
    /\ nextRun = NextRunOf(lastCronExpr)

(***************************************************************************)
(* Focus navigation.                                                       *)
(***************************************************************************)
\* C18: from a focus index i in 0..4, tab moves the index to (i + 1) mod 5 and
\* shift+tab to (i - 1 + 5) mod 5, whatever the fields hold.
C18_FocusWraps ==
    [][ /\ (focusIndex \in Fields /\ KeyTab)
            => focusIndex' = (focusIndex + 1) % 5
        /\ (focusIndex \in Fields /\ KeyShiftTab)
            => focusIndex' = ((focusIndex - 1) + 5) % 5
      ]_vars

\* the focus on the last field with the first cycle's trace gone
C18_Witness ==
    /\ focusIndex = 4
    /\ focused = [ i \in Fields |-> i = 4 ]
    /\ inputs = initialValues
    /\ trace = <<>>

\* C19: backspace lowers the focus index by one when the focused field is empty and
\* the index is above 0, and leaves the index alone otherwise; it never wraps to 4.
C19_BackspaceRetreat ==
    [][ (focusIndex \in Fields /\ KeyBackspace)
        => focusIndex' = IF inputs[focusIndex] = <<>> /\ focusIndex > 0
                         THEN focusIndex - 1 ELSE focusIndex ]_vars

\* the first two fields empty, the focus on the first, a backspace forwarded to it
C19_Witness ==
    /\ focusIndex = 0
    /\ focused[0]
    /\ inputs[0] = <<>>
    /\ inputs[1] = <<>>
    /\ RanUpdater(trace)

\* C20: an Update that finds the focus index outside 0..4 handles its message as
\* from index 0, and every Update leaves the index within 0..4.
C20_Clamp ==
    [][ /\ focusIndex' \in 0..4
        /\ focusIndex \notin 0..4
            => /\ KeyTab => (focusIndex' = 1 /\ focused' = moveFocus(focused, 0, 1))
               /\ KeyShiftTab => (focusIndex' = 4 /\ focused' = moveFocus(focused, 0, 4))
               /\ ~(KeyTab \/ KeyShiftTab) => (focusIndex' = 0 /\ focused' = focused)
      ]_vars

\* a backspace forwarded to the first field, the index in range
C20_Witness ==
    /\ focusIndex = 0
    /\ focused[0]
    /\ inputs = [ initialValues EXCEPT ![0] = <<"2">> ]
    /\ Len(trace) = 4

(***************************************************************************)
(* Focus flags, the clipboard, the help and the initial model.             *)
(***************************************************************************)
\* C21: in every state reached from initialModel exactly one input is focused, the
\* one at focusIndex; so every move of the focus blurs the field it leaves.
C21_FocusExclusive ==
    /\ focusIndex \in Fields
    /\ \A i \in Fields : focused[i] <=> (i = focusIndex)

\* the focus retreated from the emptied day field to the hour field
C21_Witness ==
    /\ focusIndex = 1
    /\ focused[1]
    /\ ~focused[2]
    /\ inputs[2] = <<>>
    /\ trace = <<>>

\* C22: the text "y" hands to the clipboard is the expression buildCronExpression
\* builds from the current fields, "*" written for an empty field.
C22_CopiesCanonicalExpression ==
    \A k \in 1..Len(trace) :
        trace[k][1] = "WriteAll" => trace[k][2] = buildCronExpression(inputs)

\* C23: "y" leaves exactly one of the three status texts in copyMessage, by the
\* clipboard's outcome, and starts one tick in each case; err, description and
\* nextRun stay as they were; the tick only empties copyMessage.
C23_CopyStatus ==
    [][ /\ KeyCopy
            => /\ copyMessage' # <<>>
               /\ trace' = <<>> => copyMessage' = <<"Clipboard not available">>
               /\ "error" \in Outcomes(trace', "WriteAll")
                     => copyMessage' = <<"Failed to copy">>
               /\ "ok" \in Outcomes(trace', "WriteAll") => copyMessage' = <<"Copied!">>
               /\ timers' = timers + 1
               /\ err' = err
               /\ description' = description
               /\ nextRun' = nextRun
        /\ ClearCopyMessage
            => /\ copyMessage' = <<>>
               /\ UNCHANGED << inputs, focused, focusIndex, description, nextRun, err,
                               width, height, showHelp, lastCronExpr >>
      ]_vars

\* the write failed while an error was showing: the error is still there
C23_Witness ==
    /\ copyMessage = <<"Failed to copy">>
    /\ "error" \in Outcomes(trace, "WriteAll")
    /\ timers = 1
    /\ err # ErrNil

\* C24: while the tick of the latest copy is pending, the status that copy set
\* is still in copyMessage.
C24_SupersededTickHarmless ==
    timers > 0 => copyMessage # <<>>

\* C25: "?" flips showHelp and changes no other field of the model, no input value
\* among them.
C25_HelpToggle ==
    [][ KeyHelp
        => /\ showHelp' = ~showHelp
           /\ UNCHANGED << inputs, focused, focusIndex, description, nextRun, err, width,
                           height, copyMessage, lastCronExpr, timers >> ]_vars

\* the help shown over an emptied minute field
C25_Witness ==
    /\ showHelp
    /\ inputs[0] = <<>>
    /\ trace = <<>>

\* C26: the initial model holds "20", "4", "*", "*", "*", the focus on field 0 only,
\* the help hidden and no copy message; and there are five fields in every state.
C26_InitialModel ==
    /\ inputs = [ i \in 0..4 |-> << <<"2", "0">>, <<"4">>, <<"*">>, <<"*">>, <<"*">> >>[i + 1] ]
    /\ focusIndex = 0
    /\ focused = [ i \in 0..4 |-> i = 0 ]
    /\ ~showHelp
    /\ copyMessage = <<>>
    /\ [](DOMAIN inputs = 0..4 /\ DOMAIN focused = 0..4)

\* five fields still, after every one was emptied
C26_Witness ==
    /\ DOMAIN inputs = 0..4
    /\ \A i \in 0..4 : inputs[i] = <<>>
    /\ focusIndex = 0

\* C27: in every state with err set, the description line of the view is
\* "Error: " followed by the error's text.
C27_ErrorVisible ==
    err # ErrNil
        => /\ renderDescription(description, err) # <<>>
           /\ renderDescription(description, err)[1] = "Error: "

\* C29: lastCronExpr is the expression of the current field values in every state,
\* and a description or next-run time in the model is the one of that expression.
C29_DerivedInSync ==
    LET expr == OrStar(inputs[0]) \o <<" ">> \o OrStar(inputs[1]) \o <<" ">>
                \o OrStar(inputs[2]) \o <<" ">> \o OrStar(inputs[3])
                \o <<" ">> \o OrStar(inputs[4])
    IN  /\ lastCronExpr = expr
        /\ description # <<>> => description = DescriptionOf(expr)
        /\ nextRun # <<>> => nextRun = NextRunOf(expr)

\* "*" deleted from the weekday field after a resize: the expression is the same
C29_Witness ==
    /\ inputs = [ initialValues EXCEPT ![4] = <<>> ]
    /\ lastCronExpr = << "2", "0", " ", "4", " ", "*", " ", "*", " ", "*" >>
    /\ width = 80
    /\ Callees(trace) = { "buildCronExpression" }

\* the field tuples with the expression of ins: "*" and the empty value exchanged
StarVariants(ins) ==
    { [ i \in Fields |->
          IF i \in S /\ ins[i] = <<>> THEN <<"*">>
          ELSE IF i \in S /\ ins[i] = <<"*">> THEN <<>>
          ELSE ins[i] ] : S \in SUBSET Fields }

\* C30: in every state the validation outcome the gated updater left is the one
\* validateCronParts gives for the current fields, and every field tuple with the
\* same expression gets that verdict.
C30_GateSoundForValidation ==
    /\ validateCronParts(inputs) # ErrNil => err = validateCronParts(inputs)
    /\ validateCronParts(inputs) = ErrNil
          => (err = ErrNil \/ err[1] # "invalid value in field")
    /\ \A alt \in StarVariants(inputs) :
          /\ buildCronExpression(alt) = buildCronExpression(inputs)
          /\ validateCronParts(alt) = validateCronParts(inputs)

\* a gated cycle over an emptied day field while the hour field is rejected
C30_Witness ==
    /\ inputs[1] = <<"S">>
    /\ inputs[2] = <<>>
    /\ Callees(trace) = { "buildCronExpression" }
    /\ err = << "invalid value in field", "hour" >>

(***************************************************************************)
(* Frames of the handlers, whitespace, time and the late claims on errors. *)
(***************************************************************************)
\* the backspace that moves the focus and does not reach the inputs
BackspaceRetreats == KeyBackspace /\ inputs[focusIndex] = <<>> /\ focusIndex > 0

\* the messages Update handles without handing them to updateInputs
Unforwarded ==
    \/ KeyTab
    \/ KeyShiftTab
    \/ BackspaceRetreats
    \/ KeyCopy
    \/ KeyHelp
    \/ KeyQuit
    \/ ClearCopyMessage
    \/ WindowSize

C32_OnlyFocusedFieldEdited ==
    [][ /\ RanUpdater(trace')
            => /\ focusIndex' = focusIndex
               /\ focused' = focused
               /\ \A i \in Fields \ {focusIndex} : inputs'[i] = inputs[i]
        /\ (\E i \in Fields : Len(inputs'[i]) > Len(inputs[i]))
            => \E r \in TypedRunes :
                  inputs'[focusIndex] = inputs[focusIndex] \o <<r>>
      ]_vars

\* "S" typed after the "4" of the hour field: the value is kept and rejected
C32_Witness ==
    /\ focusIndex = 1
    /\ inputs[1] = << "4", "S" >>
    /\ err = << "invalid value in field", "hour" >>

\* C33: no field value holds a space in any state reached by keys, so the expression
\* is five non-empty tokens with one space between neighbours and never trims to
\* nothing.
C33_NoSpaceInFields ==
    LET e == buildCronExpression(inputs)
    IN  /\ \A i \in Fields : \A k \in 1..Len(inputs[i]) : inputs[i][k] # " "
        /\ TrimSpace(e) # <<>>
        /\ Cardinality({ k \in 1..Len(e) : e[k] = " " }) = 4
        /\ e[1] # " "
        /\ e[Len(e)] # " "
        /\ \A k \in 1..(Len(e) - 1) : ~(e[k] = " " /\ e[k + 1] = " ")

\* the space key pressed on a typed field: the focus moved on and the value has no space
C33_Witness ==
    /\ focusIndex = 2
    /\ inputs[1] = <<"S">>
    /\ trace = <<>>

\* C34: after an Update a non-empty nextRun shows an instant later than the instant
\* of that Update.
C34_NextRunAfterNow ==
    [][ (clock' = clock /\ nextRun' # <<>>) => (nextRunAt' > clock') ]_vars

\* C35: a cycle in which the description collaborator and the parser both fail ends
\* with the parse-failure error in err and description and nextRun empty.
C35_BothFail ==
    ( /\ "error" \in Outcomes(trace, "ToDescription")
      /\ "error" \in Outcomes(trace, "Parse") )
        => /\ err = << "failed to parse cron expression", "parser error" >>
           /\ description = <<>>
           /\ nextRun = <<>>

\* both failed on the expression left by a backspace in the hour field
C35_Witness ==
    /\ Outcomes(trace, "ToDescription") = { "error" }
    /\ Outcomes(trace, "Parse") = { "error" }
    /\ inputs[1] = <<>>
    /\ err = ErrCronParse

C37_FieldChangeInvalidates ==
    [][ (inputs' # inputs) => Callees(trace') # { "buildCronExpression" } ]_vars

\* C37, amended: a change of a field value never clears lastCronExpr, and the cycle
\* that follows it takes the short circuit exactly when the expression of the new
\* values is the one lastCronExpr holds.
C37_FieldChangeComparesExpression ==
    [][ (inputs' # inputs)
        => /\ lastCronExpr' # <<>>
           /\ Callees(trace') = { "buildCronExpression" }
                 <=> buildCronExpression(inputs') = lastCronExpr ]_vars

\* "*" deleted from the month field: the fields changed and the cycle was gated
C37_Witness ==
    /\ inputs = [ initialValues EXCEPT ![3] = <<>> ]
    /\ Callees(trace) = { "buildCronExpression" }
    /\ description # <<>>
    /\ err = ErrNil

\* C38: in the month and weekday fields a value of allowed characters that holds a
\* letter gets the verdict of its leading run of letters: rejected when it starts
\* with another character, accepted when the run is accepted, whatever follows.
C38_LeadingRunDecides ==
    ( /\ Checked
      /\ vField \in {3, 4}
      /\ MadeOf(vValue, AllowedChars(vField))
      /\ \E i \in 1..Len(vValue) : vValue[i] \in UpperLetters )
        => /\ vValue[1] \notin UpperLetters => vResult = "invalid"
           /\ vValue[1] \in UpperLetters
                 => ( vResult = "valid"
                        <=> isValidCronPart(LeadingLetters(vValue), vField) )
           /\ vValue \in { <<"1","-","D","E","C">>, <<"*","J","A","N">>,
                           <<"1",",","M","O","N">> } => vResult = "invalid"
           /\ (vValue \in { <<"J","A","N","-","X","Y","Z">>, <<"J","A","N","*">> }
                 /\ vField = 3) => vResult = "valid"
           /\ (vValue = <<"M","O","N","/">> /\ vField = 4) => vResult = "valid"

C38_Witness ==
    /\ vValue = <<"J","A","N","-","X","Y","Z">>
    /\ vField = 3
    /\ vResult = "valid"

\* C39: a tick always leaves copyMessage empty, and with every started tick
\* delivered in the end a copy message is cleared in the end.
C39_CopyMessageCleared ==
    /\ [][ ClearCopyMessage => copyMessage' = <<>> ]_vars
    /\ (copyMessage # <<>>) ~> (copyMessage = <<>>)

\* two copies, the first tick delivered: the message is gone, one tick is pending
C39_Witness ==
    /\ copyMessage = <<>>
    /\ timers = 1
    /\ trace = <<>>
    /\ inputs = initialValues

====
